---------------------------- MODULE Spec2Model ----------------------------
(***************************************************************************)
(* Model of the Interactive-map front end (src/app.js and the variant      *)
(* copies kept in src/unnamed/part_000): the single asynchronous load of   *)
(* the GeoJSON feed, the category registry it fills, the filter panel and  *)
(* the visibility handlers.                                                *)
(*                                                                         *)
(* JavaScript values are records [t, s, n]: t is the typeof tag, s the     *)
(* characters of a string (a sequence of one-character strings) and n the  *)
(* number (or 0/1 for a boolean).                                          *)
(***************************************************************************)
EXTENDS Integers, Sequences, FiniteSets, TLC

VARIABLES
    variant,          \* which copy of the script is loaded
    pc,               \* position of the async init(): fetching, parsing, loaded, failed
    res,              \* the fetch response: "pending", "ok", "http-error", "rejected"
    geojson,          \* the parsed feed document handed to init()
    statusEl,         \* statusEl.textContent
    filtersEl,        \* the rows (label + checkbox) appended to #filters
    visibleCountEl,   \* visibleCountEl.textContent
    categoryLayers,   \* Map category -> layer group, as entries in insertion order
    categoryCounts,   \* Map category -> number, as entries in insertion order
    allMarkers,       \* the markers of the allMarkers feature group
    mapLayers,        \* keys of the category layers currently added to the map
    mapView,          \* the map view: the initial setView or the last fitBounds
    rt,               \* observer of an uncheck-then-check round trip on one row
    lastEvent,        \* observer: the continuation or listener that ran last
    pickArgs,         \* arguments of a pickProp call (SpecPick)
    pickResult,       \* what that call returned (SpecPick)
    icons             \* one feature through the icon-enabled copy (SpecIcon)

vars == <<variant, pc, res, geojson, statusEl, filtersEl, visibleCountEl,
          categoryLayers, categoryCounts, allMarkers, mapLayers, mapView, rt,
          lastEvent, pickArgs, pickResult, icons>>

appVars == <<variant, pc, res, geojson, statusEl, filtersEl, visibleCountEl,
             categoryLayers, categoryCounts, allMarkers, mapLayers, mapView, rt,
             lastEvent>>

(***************************************************************************)
(* Bounds of the model.                                                    *)
(***************************************************************************)
MaxFeatures == 2
MaxKeys == 3

(***************************************************************************)
(* JavaScript values.                                                      *)
(***************************************************************************)
Undefined == [t |-> "undefined", s |-> <<>>, n |-> 0]
Null == [t |-> "null", s |-> <<>>, n |-> 0]
Str(chars) == [t |-> "string", s |-> chars, n |-> 0]
Num(k) == [t |-> "number", s |-> <<>>, n |-> k]
Bool(b) == [t |-> "boolean", s |-> <<>>, n |-> IF b THEN 1 ELSE 0]

Digits == <<"0", "1", "2", "3", "4", "5", "6", "7", "8", "9">>

RECURSIVE NatToString(_)
NatToString(k) ==
    IF k < 10 THEN <<Digits[k + 1]>>
    ELSE NatToString(k \div 10) \o <<Digits[(k % 10) + 1]>>

\* String(v)
StringOf(v) ==
    CASE v.t = "string" -> v.s
      [] v.t = "number" -> IF v.n < 0 THEN <<"-">> \o NatToString(-v.n)
                           ELSE NatToString(v.n)
      [] v.t = "boolean" -> IF v.n = 1 THEN <<"t", "r", "u", "e">>
                            ELSE <<"f", "a", "l", "s", "e">>
      [] v.t = "null" -> <<"n", "u", "l", "l">>
      [] OTHER -> <<"u", "n", "d", "e", "f", "i", "n", "e", "d">>

\* ToBoolean(v), as applied by || and !
Truthy(v) ==
    CASE v.t = "string" -> v.s # <<>>
      [] v.t = "number" -> v.n # 0
      [] v.t = "boolean" -> v.n = 1
      [] OTHER -> FALSE

WhiteSpace == {" ", "\t", "\n"}

RECURSIVE TrimStart(_)
TrimStart(chars) ==
    IF chars # <<>> /\ Head(chars) \in WhiteSpace THEN TrimStart(Tail(chars))
    ELSE chars

RECURSIVE TrimEnd(_)
TrimEnd(chars) ==
    IF chars # <<>> /\ chars[Len(chars)] \in WhiteSpace
    THEN TrimEnd(SubSeq(chars, 1, Len(chars) - 1))
    ELSE chars

\* String.prototype.trim
Trim(chars) == TrimEnd(TrimStart(chars))

(***************************************************************************)
(* The names the script uses.                                              *)
(***************************************************************************)
Uncategorised == <<"U", "n", "c", "a", "t", "e", "g", "o", "r", "i", "s", "e", "d">>

CategoryKeys == <<"category", "category *", "category*">>

PropKeys == {"category", "category *", "category*"}

\* obj?.[k]: obj is [isObject, fields]; a null or undefined obj yields undefined
Lookup(obj, k) ==
    IF obj.isObject /\ k \in DOMAIN obj.fields THEN obj.fields[k] ELSE Undefined

\* A pickProp that takes the first key that is present, blank or not.
RECURSIVE PickPropNoBlankTest(_, _, _)
PickPropNoBlankTest(obj, keys, fallback) ==
    IF keys = <<>> THEN fallback
    ELSE LET v == Lookup(obj, Head(keys))
         IN IF v = Undefined \/ v = Null
            THEN PickPropNoBlankTest(obj, Tail(keys), fallback)
            ELSE v

RECURSIVE pickProp(_, _, _)
pickProp(obj, keys, fallback) ==
    IF keys = <<>> THEN fallback
    ELSE LET v == Lookup(obj, Head(keys))
         IN IF v = Undefined \/ v = Null
            THEN pickProp(obj, Tail(keys), fallback)
            ELSE IF Trim(StringOf(v)) # <<>> THEN v
                 ELSE pickProp(obj, Tail(keys), fallback)

(***************************************************************************)
(* Strings: toLowerCase, the id pattern and localeCompare.                 *)
(***************************************************************************)
Uppers == <<"A", "B", "C", "D", "E", "F", "G", "H", "I", "J", "K", "L", "M",
            "N", "O", "P", "Q", "R", "S", "T", "U", "V", "W", "X", "Y", "Z">>

Lowers == <<"a", "b", "c", "d", "e", "f", "g", "h", "i", "j", "k", "l", "m",
            "n", "o", "p", "q", "r", "s", "t", "u", "v", "w", "x", "y", "z">>

IsUpper(c) == \E i \in DOMAIN Uppers : Uppers[i] = c

LowerChar(c) ==
    IF IsUpper(c) THEN Lowers[CHOOSE i \in DOMAIN Uppers : Uppers[i] = c] ELSE c

\* String.prototype.toLowerCase
toLowerCase(chars) == [i \in DOMAIN chars |-> LowerChar(chars[i])]

IsIdChar(c) == (\E i \in DOMAIN Lowers : Lowers[i] = c)
               \/ (\E i \in DOMAIN Digits : Digits[i] = c)

\* replace(/[^a-z0-9]+/g, "-"): every maximal run of other characters becomes one "-"
RECURSIVE ReplaceNonAlnumRuns(_, _)
ReplaceNonAlnumRuns(chars, inRun) ==
    IF chars = <<>> THEN <<>>
    ELSE IF IsIdChar(Head(chars))
         THEN <<Head(chars)>> \o ReplaceNonAlnumRuns(Tail(chars), FALSE)
         ELSE IF inRun THEN ReplaceNonAlnumRuns(Tail(chars), TRUE)
              ELSE <<"-">> \o ReplaceNonAlnumRuns(Tail(chars), TRUE)

\* `cat-${cat.toLowerCase().replace(/[^a-z0-9]+/g, "-")}`
RowId(chars) == <<"cat-">> \o ReplaceNonAlnumRuns(toLowerCase(chars), FALSE)

\* Collation order of the characters the model uses: white space, punctuation,
\* digits, then letters without regard to case.
PrimaryOrder == <<"\t", "\n", " ", "-", "*">> \o Digits \o Lowers

PrimaryRank(c) == CHOOSE i \in DOMAIN PrimaryOrder : PrimaryOrder[i] = LowerChar(c)

\* UTF-16 code unit order of the same characters.
CodeUnitOrder == <<"\t", "\n", " ", "*", "-">> \o Digits \o Uppers \o Lowers

CodeUnitRank(c) == CHOOSE i \in DOMAIN CodeUnitOrder : CodeUnitOrder[i] = c

RECURSIVE ComparePrimary(_, _)
ComparePrimary(a, b) ==
    IF a = <<>> THEN (IF b = <<>> THEN 0 ELSE -1)
    ELSE IF b = <<>> THEN 1
    ELSE IF PrimaryRank(Head(a)) < PrimaryRank(Head(b)) THEN -1
    ELSE IF PrimaryRank(Head(a)) > PrimaryRank(Head(b)) THEN 1
    ELSE ComparePrimary(Tail(a), Tail(b))

\* Tie-break of strings equal without regard to case: lower case first.
RECURSIVE CompareCase(_, _)
CompareCase(a, b) ==
    IF a = <<>> \/ b = <<>> THEN 0
    ELSE IF Head(a) = Head(b) THEN CompareCase(Tail(a), Tail(b))
    ELSE IF IsUpper(Head(b)) THEN -1 ELSE 1

\* The comparison of the default sort(): by code units.
RECURSIVE CodeUnitCompare(_, _)
CodeUnitCompare(a, b) ==
    IF a = <<>> THEN (IF b = <<>> THEN 0 ELSE -1)
    ELSE IF b = <<>> THEN 1
    ELSE IF CodeUnitRank(Head(a)) < CodeUnitRank(Head(b)) THEN -1
    ELSE IF CodeUnitRank(Head(a)) > CodeUnitRank(Head(b)) THEN 1
    ELSE CodeUnitCompare(Tail(a), Tail(b))

\* a.localeCompare(b) on the characters of a and b
localeCompare(a, b) ==
    LET p == ComparePrimary(a, b) IN IF p # 0 THEN p ELSE CompareCase(a, b)

\* Insert key x into the sorted sequence, after every element not greater than it.
RECURSIVE SortInsert(_, _)
SortInsert(sorted, x) ==
    IF sorted = <<>> THEN <<x>>
    ELSE IF localeCompare(StringOf(Head(sorted)), StringOf(x)) <= 0
         THEN <<Head(sorted)>> \o SortInsert(Tail(sorted), x)
         ELSE <<x>> \o sorted

\* keys.sort((a, b) => a.localeCompare(b)), when no comparison throws
RECURSIVE SortKeys(_)
SortKeys(keys) ==
    IF keys = <<>> THEN <<>>
    ELSE SortInsert(SortKeys(SubSeq(keys, 1, Len(keys) - 1)), keys[Len(keys)])

(***************************************************************************)
(* The feed documents the load is run on.  A discriminator ("Feature",     *)
(* "Point", ...) is a string of one token: the script only tests it for    *)
(* equality.                                                               *)
(***************************************************************************)
Piracy == <<"P", "i", "r", "a", "c", "y">>
Other == <<"O", "t", "h", "e", "r">>
Arms == <<"a", "r", "m", "s">>

TypeFeature == Str(<<"Feature">>)
TypeFeatureCollection == Str(<<"FeatureCollection">>)
TypePoint == Str(<<"Point">>)
TypePolygon == Str(<<"Polygon">>)

NotAnObject == [isObject |-> FALSE, fields |-> <<>>]
Obj(f) == [isObject |-> TRUE, fields |-> f]

ArrayOf(items) == [isArray |-> TRUE, items |-> items]
NotAnArray == [isArray |-> FALSE, items |-> <<>>]

Geometry(type, coordinates) ==
    [isObject |-> TRUE, type |-> type, coordinates |-> coordinates]
NoGeometry == [isObject |-> FALSE, type |-> Undefined, coordinates |-> NotAnArray]

FeatureOf(type, geometry, properties) ==
    [isObject |-> TRUE, type |-> type, geometry |-> geometry, properties |-> properties]
NullFeature ==
    [isObject |-> FALSE, type |-> Undefined, geometry |-> NoGeometry,
     properties |-> NotAnObject]

LonLat == ArrayOf(<<Num(10), Num(20)>>)

PointWith(properties) == FeatureOf(TypeFeature, Geometry(TypePoint, LonLat), properties)

\* properties of the features with a sound geometry
FeedProperties ==
    { NotAnObject,
      Obj("category" :> Str(Piracy)),
      Obj("category" :> Str(Arms)),
      Obj("category" :> Str(<<" ">>)),
      Obj(("category" :> Str(<<>>)) @@ ("category *" :> Str(Other))),
      Obj(("category" :> Null) @@ ("category*" :> Str(<<"\t">>))),
      Obj("category" :> Num(0)),
      Obj("category" :> Num(5)) }

\* features that meet a skip condition of the ingestion loop
SkippedFeatures ==
    LET p == Obj("category" :> Str(Piracy))
    IN { NullFeature,
         FeatureOf(TypeFeatureCollection, Geometry(TypePoint, LonLat), p),
         FeatureOf(TypeFeature, Geometry(TypePolygon, LonLat), p),
         FeatureOf(TypeFeature, NoGeometry, p),
         FeatureOf(TypeFeature, Geometry(TypePoint, NotAnArray), p),
         FeatureOf(TypeFeature, Geometry(TypePoint, ArrayOf(<<Num(10)>>)), p),
         FeatureOf(TypeFeature, Geometry(TypePoint, ArrayOf(<<Num(10), Num(20), Num(0)>>)), p),
         FeatureOf(TypeFeature, Geometry(TypePoint, ArrayOf(<<Str(<<"1", "0">>), Num(20)>>)), p),
         FeatureOf(TypeFeature, Geometry(TypePoint, ArrayOf(<<Num(10), Null>>)), p) }

\* a Point whose numbers are no longitude and latitude
FarPoint ==
    FeatureOf(TypeFeature, Geometry(TypePoint, ArrayOf(<<Num(200), Num(95)>>)),
              Obj("category" :> Str(Other)))

Features == {PointWith(p) : p \in FeedProperties} \cup SkippedFeatures \cup {FarPoint}

SeqsUpTo(S, n) == UNION {[1..k -> S] : k \in 0..n}

Document(type, features) == [isObject |-> TRUE, type |-> type, features |-> features]
NullDocument == [isObject |-> FALSE, type |-> Undefined, features |-> NotAnArray]

FeatureCollections ==
    {Document(TypeFeatureCollection, ArrayOf(fs)) : fs \in SeqsUpTo(Features, MaxFeatures)}

\* documents the top-level test of init() rejects
MalformedDocuments ==
    LET one == ArrayOf(<<PointWith(Obj("category" :> Str(Piracy)))>>)
    IN { NullDocument,
         Document(TypeFeature, one),
         Document(Undefined, one),
         Document(TypeFeatureCollection, NotAnArray) }

Documents == FeatureCollections \cup MalformedDocuments

(***************************************************************************)
(* The two Maps, as sequences of entries in insertion order.               *)
(***************************************************************************)
MapHas(m, k) == \E i \in DOMAIN m : m[i].key = k

MapIndex(m, k) == CHOOSE i \in DOMAIN m : m[i].key = k

MapSet(m, k, v) ==
    IF MapHas(m, k) THEN [m EXCEPT ![MapIndex(m, k)].val = v]
    ELSE Append(m, [key |-> k, val |-> v])

MapKeys(m) == [i \in DOMAIN m |-> m[i].key]

\* categoryCounts.get(cat) || 0
CountOf(counts, k) == IF MapHas(counts, k) THEN counts[MapIndex(counts, k)].val ELSE 0

\* categoryLayers.get(key).getLayers(), no layer being absent
MarkersOf(layers, k) == IF MapHas(layers, k) THEN layers[MapIndex(layers, k)].val ELSE <<>>

\* const key = category || "Uncategorised"
LayerKey(category) == IF Truthy(category) THEN category ELSE Str(Uncategorised)

\* the Map after getOrCreateCategoryLayer(category)
getOrCreateCategoryLayer(layers, category) ==
    IF MapHas(layers, LayerKey(category)) THEN layers
    ELSE Append(layers, [key |-> LayerKey(category), val |-> <<>>])

(***************************************************************************)
(* init(): the ingestion loop.                                             *)
(***************************************************************************)
\* feature.geometry || {}
GeometryOrEmpty(f) ==
    IF f.geometry.isObject THEN f.geometry
    ELSE [isObject |-> TRUE, type |-> Undefined, coordinates |-> NotAnArray]

\* feature.properties || {}
PropertiesOrEmpty(f) == IF f.properties.isObject THEN f.properties ELSE Obj(<<>>)

\* A loop that does not look at the length of the coordinates.
SkipsWithoutLength(f) ==
    \/ ~f.isObject
    \/ f.type # TypeFeature
    \/ GeometryOrEmpty(f).type # TypePoint
    \/ ~GeometryOrEmpty(f).coordinates.isArray
    \/ Len(GeometryOrEmpty(f).coordinates.items) < 2
    \/ GeometryOrEmpty(f).coordinates.items[2].t # "number"
    \/ GeometryOrEmpty(f).coordinates.items[1].t # "number"

\* the three `continue` tests of the loop
Skips(f) ==
    \/ ~f.isObject
    \/ f.type # TypeFeature
    \/ GeometryOrEmpty(f).type # TypePoint
    \/ ~GeometryOrEmpty(f).coordinates.isArray
    \/ Len(GeometryOrEmpty(f).coordinates.items) # 2
    \/ GeometryOrEmpty(f).coordinates.items[2].t # "number"
    \/ GeometryOrEmpty(f).coordinates.items[1].t # "number"

\* const category = ...: pickProp over the candidate keys in app.js, and
\* props.category || "Uncategorised" in the first copy of part_000
ResolveCategory(v, props) ==
    IF v = "legacy"
    THEN (IF Truthy(Lookup(props, "category")) THEN Lookup(props, "category")
          ELSE Str(Uncategorised))
    ELSE pickProp(props, CategoryKeys, Str(Uncategorised))

\* A marker placed at the pair as it stands in the feed.
MarkerUnswapped(f, i) ==
    [lat |-> GeometryOrEmpty(f).coordinates.items[1].n,
     lng |-> GeometryOrEmpty(f).coordinates.items[2].n,
     stamp |-> i]

\* L.marker([lat, lon]) for const [lon, lat] = geom.coordinates; stamp tells the
\* marker objects apart (the i-th feature made it)
MarkerOf(f, i) ==
    [lat |-> GeometryOrEmpty(f).coordinates.items[2].n,
     lng |-> GeometryOrEmpty(f).coordinates.items[1].n,
     stamp |-> i]

\* one pass of the loop body over a feature that is not skipped
IngestFeature(v, st, f, i) ==
    LET category == ResolveCategory(v, PropertiesOrEmpty(f))
        counts == MapSet(st.counts, category, CountOf(st.counts, category) + 1)
        created == getOrCreateCategoryLayer(st.layers, category)
        key == LayerKey(category)
    IN [counts |-> counts,
        layers |-> MapSet(created, key, Append(MarkersOf(created, key), MarkerOf(f, i))),
        markers |-> Append(st.markers, MarkerOf(f, i))]

\* for (const feature of geojson.features) ..., from the i-th feature on
RECURSIVE IngestFrom(_, _, _, _)
IngestFrom(v, st, features, i) ==
    IF i > Len(features) THEN st
    ELSE IF Skips(features[i]) THEN IngestFrom(v, st, features, i + 1)
         ELSE IngestFrom(v, IngestFeature(v, st, features[i], i), features, i + 1)

(***************************************************************************)
(* updateVisibleCount and buildFiltersUI.                                  *)
(***************************************************************************)
RECURSIVE SumVisible(_, _, _, _)
SumVisible(layers, attached, counts, i) ==
    IF i > Len(layers) THEN 0
    ELSE (IF layers[i].key \in attached THEN CountOf(counts, layers[i].key) ELSE 0)
         + SumVisible(layers, attached, counts, i + 1)

\* the text updateVisibleCount() writes
updateVisibleCount(layers, attached, counts) ==
    NatToString(SumVisible(layers, attached, counts, 1))

\* the row appended for one category
Row(cat, counts) ==
    [cat |-> cat,
     id |-> RowId(cat.s),
     checked |-> TRUE,
     label |-> cat.s,
     count |-> NatToString(CountOf(counts, cat)) \o <<" event(s)">>]

Rows(keys, counts) == [i \in DOMAIN keys |-> Row(keys[i], counts)]

\* the keys before the first one that is not a string
RECURSIVE StringPrefix(_)
StringPrefix(keys) ==
    IF keys = <<>> \/ Head(keys).t # "string" THEN <<>>
    ELSE <<Head(keys)>> \o StringPrefix(Tail(keys))

\* keys.sort() as written, without the sort
KeysUnsorted(keys) == keys

\* Array.from(categoryLayers.keys()).sort((a, b) => a.localeCompare(b))
SortedCategories(keys) == SortKeys(keys)

\* The outcomes of buildFiltersUI(): the rows left in #filters and whether it
\* threw.  A key that is not a string has no localeCompare and no toLowerCase:
\* the sort throws when the engine hands it to the comparator as a (no row is
\* built), and otherwise the loop throws on reaching it (rows before it stay).
buildFiltersUI(layers, counts) ==
    LET sorted == SortedCategories(MapKeys(layers))
    IN IF \A i \in DOMAIN layers : layers[i].key.t = "string"
       THEN {[threw |-> FALSE, rows |-> Rows(sorted, counts)]}
       ELSE {[threw |-> TRUE, rows |-> <<>>],
             [threw |-> TRUE, rows |-> Rows(StringPrefix(sorted), counts)]}

(***************************************************************************)
(* Bounds of a group of markers and the map view.                          *)
(***************************************************************************)
InitialView == [kind |-> "setView", south |-> 20, west |-> 0, north |-> 20, east |-> 0]

\* group.getBounds(): valid only when the group holds a marker
BoundsOf(markers) ==
    IF markers = <<>>
    THEN [valid |-> FALSE, south |-> 0, west |-> 0, north |-> 0, east |-> 0]
    ELSE LET lats == {markers[i].lat : i \in DOMAIN markers}
             lngs == {markers[i].lng : i \in DOMAIN markers}
         IN [valid |-> TRUE,
             south |-> CHOOSE x \in lats : \A y \in lats : x <= y,
             west |-> CHOOSE x \in lngs : \A y \in lngs : x <= y,
             north |-> CHOOSE x \in lats : \A y \in lats : x >= y,
             east |-> CHOOSE x \in lngs : \A y \in lngs : x >= y]

\* A fit that does not ask whether the bounds are valid.
FitAlways(view, b) ==
    [kind |-> "fitBounds", south |-> b.south, west |-> b.west,
     north |-> b.north, east |-> b.east]

\* if (b.isValid()) map.fitBounds(b, ...)
FitIfValid(view, b) ==
    IF b.valid
    THEN [kind |-> "fitBounds", south |-> b.south, west |-> b.west,
          north |-> b.north, east |-> b.east]
    ELSE view

(***************************************************************************)
(* The status line.  The ellipsis character of the first message is        *)
(* written as three dots.                                                  *)
(***************************************************************************)
StatusLoading == <<"Loading events...">>
StatusError == <<"Error loading events (see console)">>
StatusLoaded(n) == <<"Loaded ">> \o NatToString(n) \o <<" events">>

(***************************************************************************)
(* The checkbox handlers.  S is the part of the page a handler works on:   *)
(* the rows, the layers on the map and the count shown.                    *)
(***************************************************************************)
\* A change listener that never puts a layer back on the map.
ChangeNeverAdds(S, i) ==
    IF ~MapHas(categoryLayers, S.rows[i].cat) THEN S
    ELSE LET attached == S.attached \ {S.rows[i].cat}
         IN [S EXCEPT !.attached = attached,
                      !.count = updateVisibleCount(categoryLayers, attached, categoryCounts)]

\* the "change" listener of row i
onCheckboxChange(S, i) ==
    IF ~MapHas(categoryLayers, S.rows[i].cat) THEN S
    ELSE LET attached == IF S.rows[i].checked THEN S.attached \cup {S.rows[i].cat}
                         ELSE S.attached \ {S.rows[i].cat}
         IN [S EXCEPT !.attached = attached,
                      !.count = updateVisibleCount(categoryLayers, attached, categoryCounts)]

\* the user clicks the checkbox of row i: it flips, then "change" fires
ClickCheckbox(S, i) ==
    onCheckboxChange([S EXCEPT !.rows[i].checked = ~@], i)

\* checkboxes.forEach(cb => { cb.checked = checked; cb.dispatchEvent(...) }), from row i on
RECURSIVE SetFrom(_, _, _)
SetFrom(S, checked, i) ==
    IF i > Len(S.rows) THEN S
    ELSE SetFrom(onCheckboxChange([S EXCEPT !.rows[i].checked = checked], i), checked, i + 1)

setAllCheckboxes(S, checked) == SetFrom(S, checked, 1)

Page == [rows |-> filtersEl, attached |-> mapLayers, count |-> visibleCountEl]

\* The markers of every layer, on the map or not.
RECURSIVE MarkersOfEveryLayer(_, _, _)
MarkersOfEveryLayer(layers, attached, i) ==
    IF i > Len(layers) THEN <<>>
    ELSE layers[i].val \o MarkersOfEveryLayer(layers, attached, i + 1)

\* the markers of the layers that are on the map, layer by layer
RECURSIVE VisibleMarkers(_, _, _)
VisibleMarkers(layers, attached, i) ==
    IF i > Len(layers) THEN <<>>
    ELSE (IF layers[i].key \in attached THEN layers[i].val ELSE <<>>)
         \o VisibleMarkers(layers, attached, i + 1)

(***************************************************************************)
(* State after the script has run to its first await.                      *)
(***************************************************************************)
NoRoundTrip == [phase |-> 0, cat |-> Undefined, count |-> <<>>, attached |-> {}]

NoCall == [obj |-> NotAnObject, keys |-> <<>>, fallback |-> Undefined]

\* no feature has been put through the icon-enabled copy
NoIcons == [phase |-> "none", props |-> NotAnObject, category |-> Undefined,
            markerIcon |-> <<>>, key |-> Undefined, rowIcon |-> <<>>]

Variants == {"app", "legacy"}

\* the text of #visibleCount in the page before the script writes it
VisibleCountMarkup == {<<>>, <<"0">>}

InitApp ==
    /\ variant \in Variants
    /\ pc = "fetching"
    /\ res = "pending"
    /\ geojson = NullDocument
    /\ statusEl = StatusLoading
    /\ filtersEl = <<>>
    /\ visibleCountEl \in VisibleCountMarkup
    /\ categoryLayers = <<>>
    /\ categoryCounts = <<>>
    /\ allMarkers = <<>>
    /\ mapLayers = {}
    /\ mapView = InitialView
    /\ rt = NoRoundTrip
    /\ lastEvent = "script"

Init ==
    /\ InitApp
    /\ pickArgs = NoCall
    /\ pickResult = [called |-> FALSE, value |-> Undefined]
    /\ icons = NoIcons

(***************************************************************************)
(* init(): the steps between its awaits.                                   *)
(***************************************************************************)
\* A catch that logs the error and leaves the status line alone.
CatchKeepsStatus ==
    /\ statusEl' = statusEl
    /\ pc' = "failed"

\* catch (err) { ...; statusEl.textContent = "Error loading events (see console)" }
Catch ==
    /\ statusEl' = StatusError
    /\ pc' = "failed"

\* A fetch continuation that does not test res.ok.
FetchResolvesUnchecked(ok) ==
    /\ pc = "fetching"
    /\ lastEvent' = "fetch"
    /\ res' = IF ok THEN "ok" ELSE "http-error"
    /\ pc' = "parsing"
    /\ UNCHANGED <<variant, geojson, statusEl, filtersEl, visibleCountEl, categoryLayers,
                   categoryCounts, allMarkers, mapLayers, mapView, rt, pickArgs, pickResult, icons>>

\* fetch() resolves with a response; if (!res.ok) throw
FetchResolves(ok) ==
    /\ pc = "fetching"
    /\ lastEvent' = "fetch"
    /\ res' = IF ok THEN "ok" ELSE "http-error"
    /\ IF ok THEN pc' = "parsing" /\ statusEl' = statusEl ELSE Catch
    /\ UNCHANGED <<variant, geojson, filtersEl, visibleCountEl, categoryLayers,
                   categoryCounts, allMarkers, mapLayers, mapView, rt, pickArgs, pickResult, icons>>

\* fetch() rejects (no response at all)
FetchRejects ==
    /\ pc = "fetching"
    /\ lastEvent' = "fetch"
    /\ res' = "rejected"
    /\ Catch
    /\ UNCHANGED <<variant, geojson, filtersEl, visibleCountEl, categoryLayers,
                   categoryCounts, allMarkers, mapLayers, mapView, rt, pickArgs, pickResult, icons>>

\* res.json() rejects: the body is not JSON
JsonRejects ==
    /\ pc = "parsing"
    /\ lastEvent' = "json"
    /\ Catch
    /\ UNCHANGED <<variant, res, geojson, filtersEl, visibleCountEl, categoryLayers,
                   categoryCounts, allMarkers, mapLayers, mapView, rt, pickArgs, pickResult, icons>>

\* A top-level test that looks only at the features member.
MalformedIgnoringType(doc) == ~doc.isObject \/ ~doc.features.isArray

\* A top-level test that also rejects a feed without features.
MalformedOrEmpty(doc) ==
    \/ ~doc.isObject
    \/ doc.type # TypeFeatureCollection
    \/ ~doc.features.isArray
    \/ doc.features.items = <<>>

\* !geojson || geojson.type !== "FeatureCollection" || !Array.isArray(geojson.features)
Malformed(doc) ==
    ~doc.isObject \/ doc.type # TypeFeatureCollection \/ ~doc.features.isArray

\* A load that leaves the new layers off the map.
AttachNone(attached, layers) == attached

\* for (const layer of categoryLayers.values()) layer.addTo(map)
AttachAll(attached, layers) == attached \cup {layers[i].key : i \in DOMAIN layers}

\* res.json() resolves with doc: the rest of the try block runs to its end
JsonResolves(doc) ==
    /\ pc = "parsing"
    /\ lastEvent' = "json"
    /\ geojson' = doc
    /\ IF Malformed(doc)
       THEN /\ Catch
            /\ UNCHANGED <<filtersEl, visibleCountEl, categoryLayers, categoryCounts,
                           allMarkers, mapLayers, mapView>>
       ELSE LET st == IngestFrom(variant,
                                 [counts |-> categoryCounts, layers |-> categoryLayers,
                                  markers |-> allMarkers],
                                 doc.features.items, 1)
                attached == AttachAll(mapLayers, st.layers)
            IN /\ categoryCounts' = st.counts
               /\ categoryLayers' = st.layers
               /\ allMarkers' = st.markers
               /\ mapLayers' = attached
               /\ \E built \in buildFiltersUI(st.layers, st.counts) :
                     /\ filtersEl' = built.rows
                     /\ IF built.threw
                        THEN /\ Catch
                             /\ UNCHANGED <<visibleCountEl, mapView>>
                        ELSE /\ visibleCountEl' = updateVisibleCount(st.layers, attached, st.counts)
                             /\ mapView' = FitIfValid(mapView, BoundsOf(st.markers))
                             /\ statusEl' = StatusLoaded(Len(st.markers))
                             /\ pc' = "loaded"
    /\ UNCHANGED <<variant, res, rt, pickArgs, pickResult, icons>>

(***************************************************************************)
(* The user's events.                                                      *)
(***************************************************************************)
\* a click on the checkbox of row i
ToggleCheckbox(i) ==
    /\ i \in DOMAIN filtersEl
    /\ LET S == ClickCheckbox(Page, i)
       IN /\ filtersEl' = S.rows
          /\ mapLayers' = S.attached
          /\ visibleCountEl' = S.count
    /\ lastEvent' = "change"
    /\ rt' = IF filtersEl[i].checked
             THEN [phase |-> 1, cat |-> filtersEl[i].cat, count |-> visibleCountEl,
                   attached |-> mapLayers]
             ELSE IF rt.phase = 1 /\ rt.cat = filtersEl[i].cat
                  THEN [rt EXCEPT !.phase = 2]
                  ELSE NoRoundTrip
    /\ UNCHANGED <<variant, pc, res, geojson, statusEl, categoryLayers, categoryCounts,
                   allMarkers, mapView, pickArgs, pickResult, icons>>

\* A select-none that empties the layers instead of taking them off the map.
SelectNoneClearsLayers(checked) ==
    /\ LET S == setAllCheckboxes(Page, checked)
       IN /\ filtersEl' = S.rows
          /\ mapLayers' = S.attached
          /\ visibleCountEl' = S.count
    /\ categoryLayers' = IF checked THEN categoryLayers
                         ELSE [i \in DOMAIN categoryLayers |->
                                  [categoryLayers[i] EXCEPT !.val = <<>>]]
    /\ rt' = NoRoundTrip
    /\ lastEvent' = IF checked THEN "selectAll" ELSE "selectNone"
    /\ UNCHANGED <<variant, pc, res, geojson, statusEl, categoryCounts,
                   allMarkers, mapView, pickArgs, pickResult, icons>>

\* selectAllBtn / selectNoneBtn "click"
SelectAllOrNone(checked) ==
    /\ LET S == setAllCheckboxes(Page, checked)
       IN /\ filtersEl' = S.rows
          /\ mapLayers' = S.attached
          /\ visibleCountEl' = S.count
    /\ rt' = NoRoundTrip
    /\ lastEvent' = IF checked THEN "selectAll" ELSE "selectNone"
    /\ UNCHANGED <<variant, pc, res, geojson, statusEl, categoryLayers, categoryCounts,
                   allMarkers, mapView, pickArgs, pickResult, icons>>

\* zoomVisibleBtn "click"
ZoomVisible ==
    /\ mapView' = FitIfValid(mapView, BoundsOf(VisibleMarkers(categoryLayers, mapLayers, 1)))
    /\ rt' = NoRoundTrip
    /\ lastEvent' = "zoomVisible"
    /\ UNCHANGED <<variant, pc, res, geojson, statusEl, filtersEl, visibleCountEl,
                   categoryLayers, categoryCounts, allMarkers, mapLayers, pickArgs,
                   pickResult, icons>>

Next ==
    \/ \E ok \in BOOLEAN : FetchResolves(ok)
    \/ FetchRejects
    \/ JsonRejects
    \/ \E doc \in Documents : JsonResolves(doc)
    \/ \E i \in DOMAIN filtersEl : ToggleCheckbox(i)
    \/ \E checked \in BOOLEAN : SelectAllOrNone(checked)
    \/ ZoomVisible

Spec == Init /\ [][Next]_vars

\* the promise of res.json() settles: its continuation is run in the end
JsonSettles == JsonRejects \/ \E doc \in Documents : JsonResolves(doc)

SpecFair == Spec /\ WF_vars(JsonSettles)

(***************************************************************************)
(* pickProp on its own: the arguments are drawn in the initial state and   *)
(* one step makes the call.                                                *)
(***************************************************************************)
PickValues ==
    { Undefined, Null, Str(<<>>), Str(<<" ", "\t">>), Str(<<" ", "a", " ">>),
      Str(Piracy), Num(0) }

PickObjects == {NotAnObject, Obj(<<>>)} \cup {Obj(f) : f \in [PropKeys -> PickValues]}

PickFallbacks == {Str(<<>>), Str(Uncategorised)}

InitPick ==
    /\ variant = "app"
    /\ pc = "fetching"
    /\ res = "pending"
    /\ geojson = NullDocument
    /\ statusEl = StatusLoading
    /\ filtersEl = <<>>
    /\ visibleCountEl = <<>>
    /\ categoryLayers = <<>>
    /\ categoryCounts = <<>>
    /\ allMarkers = <<>>
    /\ mapLayers = {}
    /\ mapView = InitialView
    /\ rt = NoRoundTrip
    /\ lastEvent = "script"
    /\ pickArgs \in [obj : PickObjects, keys : SeqsUpTo(PropKeys, MaxKeys),
                     fallback : PickFallbacks]
    /\ pickResult = [called |-> FALSE, value |-> Undefined]
    /\ icons = NoIcons

CallPickProp ==
    /\ ~pickResult.called
    /\ pickResult' = [called |-> TRUE,
                      value |-> pickProp(pickArgs.obj, pickArgs.keys, pickArgs.fallback)]
    /\ UNCHANGED <<appVars, pickArgs, icons>>

NextPick == CallPickProp

SpecPick == InitPick /\ [][NextPick]_vars

(***************************************************************************)
(* What the claims speak of.                                               *)
(***************************************************************************)
\* a string all of whose characters are white space (the empty one too)
BlankString(v) == v.t = "string" /\ \A i \in DOMAIN v.s : v.s[i] \in WhiteSpace

\* the key holds a value that is present and whose string form is not blank
NonBlankUnder(obj, k) ==
    /\ obj.isObject
    /\ k \in DOMAIN obj.fields
    /\ obj.fields[k] \notin {Undefined, Null}
    /\ \E i \in DOMAIN StringOf(obj.fields[k]) : StringOf(obj.fields[k])[i] \notin WhiteSpace

\* the parsed feed is a feature collection with a features sequence
IsFeatureCollection(doc) ==
    doc.isObject /\ doc.type = TypeFeatureCollection /\ doc.features.isArray

\* the feature meets none of the skip conditions
Survives(f) ==
    /\ f.isObject
    /\ f.type = TypeFeature
    /\ f.geometry.isObject
    /\ f.geometry.type = TypePoint
    /\ f.geometry.coordinates.isArray
    /\ Len(f.geometry.coordinates.items) = 2
    /\ \A j \in 1..2 : f.geometry.coordinates.items[j].t = "number"

SurvivorIndices == {i \in DOMAIN geojson.features.items : Survives(geojson.features.items[i])}

KeySet(m) == {m[i].key : i \in DOMAIN m}

RECURSIVE SumCounts(_, _)
SumCounts(counts, i) ==
    IF i > Len(counts) THEN 0 ELSE counts[i].val + SumCounts(counts, i + 1)

RowCats == [i \in DOMAIN filtersEl |-> filtersEl[i].cat]

(***************************************************************************)
(* The icon-enabled copy (src/unnamed/part_000:227-530): the icon of a     *)
(* marker and the icon of a filter row.  One feature's properties are      *)
(* drawn in the initial state; one step ingests the feature, the next      *)
(* builds the row of its category.  A file name is kept in one piece.      *)
(***************************************************************************)
Constructor == <<"c", "o", "n", "s", "t", "r", "u", "c", "t", "o", "r">>

ToStringName == <<"t", "o", "S", "t", "r", "i", "n", "g">>

\* const CATEGORY_ICON_FILE = { ... }: the properties the literal gives it
CATEGORY_ICON_FILE ==
    <<"N", "a", "t", "u", "r", "a", "l", " ", "D", "i", "s", "a", "s", "t",
      "e", "r", "s", " ", "&", " ", "W", "e", "a", "t", "h", "e", "r">>
        :> <<"cloud-bolt-solid-full.svg">> @@
    <<"O", "p", "e", "r", "a", "t", "i", "o", "n", "a", "l", " ", "I", "n",
      "c", "i", "d", "e", "n", "t", "s", " ", "(", "F", "i", "r", "e", "s",
      ",", " ", "a", "c", "c", "i", "d", "e", "n", "t", "s", ",", " ", "i",
      "n", "d", "u", "s", "t", "r", "i", "a", "l", " ", "i", "n", "c", "i",
      "d", "e", "n", "t", "s", ")">>
        :> <<"triangle-exclamation-solid-full.svg">> @@
    <<"I", "n", "f", "r", "a", "s", "t", "r", "u", "c", "t", "u", "r", "e",
      " ", "&", " ", "L", "o", "g", "i", "s", "t", "i", "c", "s", " ", "F",
      "a", "i", "l", "u", "r", "e">>
        :> <<"wrench-solid-full.svg">> @@
    <<"T", "r", "a", "d", "e", " ", "P", "o", "l", "i", "c", "y", " ", "(",
      "T", "a", "r", "i", "f", "f", "s", ",", " ", "q", "u", "o", "t", "a",
      "s", ",", " ", "b", "a", "r", "r", "i", "e", "r", "s", ")">>
        :> <<"scale-balanced-solid-full.svg">> @@
    <<"R", "e", "g", "u", "l", "a", "t", "o", "r", "y", " ", "&", " ", "C",
      "o", "m", "p", "l", "i", "a", "n", "c", "e">>
        :> <<"gavel-solid-full.svg">> @@
    Piracy
        :> <<"skull-crossbones-solid-full.svg">> @@
    <<"C", "y", "b", "e", "r", " ", "a", "t", "t", "a", "c", "k", "s", " ",
      "&", " ", "I", "C", "T", " ", "D", "i", "s", "r", "u", "p", "t", "i",
      "o", "n">>
        :> <<"bug-solid-full.svg">> @@
    <<"G", "e", "o", "p", "o", "l", "i", "t", "i", "c", "a", "l", " ", "&",
      " ", "S", "e", "c", "u", "r", "i", "t", "y">>
        :> <<"shield-solid-full.svg">> @@
    <<"L", "a", "b", "o", "u", "r", " ", "&", " ", "I", "n", "d", "u", "s",
      "t", "r", "i", "a", "l", " ", "A", "c", "t", "i", "o", "n">>
        :> <<"people-group-solid-full.svg">> @@
    <<"C", "r", "i", "m", "e", ",", " ", "F", "r", "a", "u", "d", " ", "&",
      " ", "C", "o", "r", "r", "u", "p", "t", "i", "o", "n">>
        :> <<"money-bill-solid-full.svg">> @@
    Other
        :> <<"question-solid-full.svg">> @@
    Uncategorised
        :> <<"question-solid-full.svg">>

\* what the object inherits from Object.prototype: functions, under their names
ObjectPrototype ==
    Constructor :> [t |-> "function", s |-> <<"function Object() { [native code] }">>, n |-> 0] @@
    ToStringName :> [t |-> "function", s |-> <<"function toString() { [native code] }">>, n |-> 0]

\* CATEGORY_ICON_FILE[cat]: an own property, else an inherited one, else undefined
IconProperty(cat) ==
    IF cat \in DOMAIN CATEGORY_ICON_FILE THEN Str(CATEGORY_ICON_FILE[cat])
    ELSE IF cat \in DOMAIN ObjectPrototype THEN ObjectPrototype[cat]
    ELSE Undefined

\* x || CATEGORY_ICON_FILE["Other"]: a function is truthy
IconOrOther(v) ==
    IF v.t = "function" \/ Truthy(v) THEN v ELSE IconProperty(Other)

\* `assets/icons/${filename}`: a function is written as its source text
IconPath(filename) ==
    <<"assets/icons/">> \o (IF filename.t = "function" THEN filename.s ELSE StringOf(filename))

\* normaliseCategory(cat): String(cat ?? "").trim() || "Uncategorised"
normaliseCategory(cat) ==
    LET c == Trim(StringOf(IF cat = Undefined \/ cat = Null THEN Str(<<>>) ELSE cat))
    IN IF c # <<>> THEN c ELSE Uncategorised

\* makeCategoryIcon(category): the src of the image in the marker's icon
makeCategoryIcon(category) ==
    LET cat == normaliseCategory(category)
        filename == IconOrOther(IconProperty(cat))
    IN IconPath(filename)

\* buildFiltersUI(): icon.src of the row of the key cat
RowIconSrc(cat) ==
    LET catNorm == normaliseCategory(cat)
        filename == IconOrOther(IconProperty(catNorm))
    IN IconPath(filename)

IconValues ==
    { Undefined, Str(<<" ", "\t">>), Str(Piracy), Str(<<" ">> \o Piracy \o <<" ">>),
      Str(Other), Str(Arms), Str(Constructor), Num(0), Num(5) }

IconObjects == {NotAnObject} \cup {Obj(f) : f \in [PropKeys -> IconValues]}

InitIcon ==
    /\ variant = "app"
    /\ pc = "fetching"
    /\ res = "pending"
    /\ geojson = NullDocument
    /\ statusEl = StatusLoading
    /\ filtersEl = <<>>
    /\ visibleCountEl = <<>>
    /\ categoryLayers = <<>>
    /\ categoryCounts = <<>>
    /\ allMarkers = <<>>
    /\ mapLayers = {}
    /\ mapView = InitialView
    /\ rt = NoRoundTrip
    /\ lastEvent = "script"
    /\ pickArgs = NoCall
    /\ pickResult = [called |-> FALSE, value |-> Undefined]
    /\ icons \in {[NoIcons EXCEPT !.phase = "feed", !.props = o] : o \in IconObjects}

\* the loop body of init() on a Point feature with these properties
IconIngest ==
    /\ icons.phase = "feed"
    /\ LET category == pickProp(icons.props, CategoryKeys, Str(Uncategorised))
       IN icons' = [icons EXCEPT !.phase = "ingested",
                                 !.category = category,
                                 !.markerIcon = makeCategoryIcon(category),
                                 !.key = LayerKey(category)]
    /\ UNCHANGED <<appVars, pickArgs, pickResult>>

\* buildFiltersUI() on the one key: cat.toLowerCase() throws on a key that is
\* no string, before the icon of the row is made
IconBuildRow ==
    /\ icons.phase = "ingested"
    /\ icons' = IF icons.key.t = "string"
                THEN [icons EXCEPT !.phase = "built", !.rowIcon = RowIconSrc(icons.key)]
                ELSE [icons EXCEPT !.phase = "threw"]
    /\ UNCHANGED <<appVars, pickArgs, pickResult>>

NextIcon == IconIngest \/ IconBuildRow

SpecIcon == InitIcon /\ [][NextIcon]_vars

(***************************************************************************)
(* C1..C10                                                                 *)
(***************************************************************************)
\* C1: after a successful load, a click on select-all leaves the count shown
\* equal to the sum of all category counts, which is the number of ingested
\* events, and a click on select-none leaves it equal to 0.
C1_SelectAllShowsEveryEvent ==
    [][/\ (pc = "loaded" /\ SelectAllOrNone(TRUE)) =>
            /\ visibleCountEl' = NatToString(SumCounts(categoryCounts, 1))
            /\ visibleCountEl' = NatToString(Len(allMarkers))
       /\ (pc = "loaded" /\ SelectAllOrNone(FALSE)) => visibleCountEl' = NatToString(0)]_vars

\* C2: in every state after a successful load, unchecking the checkbox of any
\* checked row and checking it again gives back the count shown, the layers on
\* the map and the rows; and whenever the two clicks have just been made the
\* count and the layers are those from before the first click.
C2_ToggleRoundTrip ==
    pc = "loaded" =>
        /\ \A i \in DOMAIN filtersEl :
              filtersEl[i].checked =>
                  ClickCheckbox(ClickCheckbox(Page, i), i) = Page
        /\ rt.phase = 2 => (visibleCountEl = rt.count /\ mapLayers = rt.attached)

\* a round trip has just been completed on one row while another row is hidden
C2_Witness ==
    /\ pc = "loaded"
    /\ rt.phase = 2
    /\ visibleCountEl # NatToString(0)
    /\ \E i \in DOMAIN filtersEl : ~filtersEl[i].checked

\* C3: for a feed that is a feature collection the markers made are those of
\* the features meeting no skip condition, one each, in feed order, and the
\* status of a successful load shows their number.
C3_IngestedAreSurvivorsInOrder ==
    IsFeatureCollection(geojson) =>
        /\ Len(allMarkers) = Cardinality(SurvivorIndices)
        /\ \A i \in DOMAIN allMarkers : allMarkers[i].stamp \in SurvivorIndices
        /\ \A i, j \in DOMAIN allMarkers : i < j => allMarkers[i].stamp < allMarkers[j].stamp
        /\ pc = "loaded" => statusEl = StatusLoaded(Cardinality(SurvivorIndices))

\* a skipped feature ahead of an ingested one
C3_Witness ==
    /\ pc = "loaded"
    /\ Len(geojson.features.items) = 2
    /\ ~Survives(geojson.features.items[1])
    /\ Len(allMarkers) = 1
    /\ statusEl = StatusLoaded(1)

\* C4: after a successful load categoryLayers and categoryCounts have the same
\* keys, the categories resolved for the ingested events, and the count stored
\* under a key is the number of ingested events of that category and the
\* number of markers in the layer of that key.
C4_RegistryKeysAndCountsAgree ==
    pc = "loaded" =>
        LET feats == geojson.features.items
            cat(i) == ResolveCategory(variant, PropertiesOrEmpty(feats[i]))
        IN /\ KeySet(categoryLayers) = KeySet(categoryCounts)
           /\ KeySet(categoryCounts) = {cat(i) : i \in SurvivorIndices}
           /\ \A k \in KeySet(categoryCounts) :
                 /\ CountOf(categoryCounts, k) = Cardinality({i \in SurvivorIndices : cat(i) = k})
                 /\ CountOf(categoryCounts, k) = Len(MarkersOf(categoryLayers, k))

\* C5: no event is counted or layered under an empty or white-space key, and
\* an event whose category is absent, null or blank under every candidate key
\* is counted and layered under "Uncategorised".
C5_NoBlankCategory ==
    IsFeatureCollection(geojson) =>
        /\ \A k \in KeySet(categoryCounts) \cup KeySet(categoryLayers) : ~BlankString(k)
        /\ \A i \in DOMAIN allMarkers :
              LET props == geojson.features.items[allMarkers[i].stamp].properties
              IN (\A j \in DOMAIN CategoryKeys : ~NonBlankUnder(props, CategoryKeys[j])) =>
                     /\ MapHas(categoryCounts, Str(Uncategorised))
                     /\ \E m \in DOMAIN MarkersOf(categoryLayers, Str(Uncategorised)) :
                           MarkersOf(categoryLayers, Str(Uncategorised))[m] = allMarkers[i]

\* C6: pickProp returns the raw value under the first key of the list whose
\* value is present and not blank after trimming, and the fallback when there
\* is no such key.
C6_PickPropFirstNonBlank ==
    pickResult.called =>
        LET good == {j \in DOMAIN pickArgs.keys : NonBlankUnder(pickArgs.obj, pickArgs.keys[j])}
        IN IF good = {}
           THEN pickResult.value = pickArgs.fallback
           ELSE \E j \in good :
                   /\ \A h \in good : j <= h
                   /\ pickResult.value = pickArgs.obj.fields[pickArgs.keys[j]]

\* the call skipped a blank first key and returned an untrimmed later value,
\* while the last key holds another value that is not blank
C6_Witness ==
    /\ pickResult.called
    /\ Len(pickArgs.keys) = 3
    /\ pickArgs.obj.isObject
    /\ DOMAIN pickArgs.obj.fields = PropKeys
    /\ pickArgs.obj.fields[pickArgs.keys[1]] = Str(<<" ", "\t">>)
    /\ pickArgs.obj.fields[pickArgs.keys[3]] = Str(Piracy)
    /\ pickResult.value = Str(<<" ", "a", " ">>)

C8_FeatureContentNeverAborts ==
    IsFeatureCollection(geojson) =>
        /\ pc = "loaded"
        /\ statusEl = StatusLoaded(Cardinality(SurvivorIndices))

\* C9: when the parsed feed is null, is not of type FeatureCollection or has no
\* features sequence, the load ends in the error status with nothing ingested,
\* registered, attached or built.
C9_MalformedFeedFailsWholesale ==
    (pc \in {"loaded", "failed"} /\ ~IsFeatureCollection(geojson)) =>
        /\ pc = "failed"
        /\ statusEl = StatusError
        /\ allMarkers = <<>>
        /\ categoryLayers = <<>>
        /\ categoryCounts = <<>>
        /\ mapLayers = {}
        /\ filtersEl = <<>>

\* the load was given an object of the wrong type that holds a valid feature
C9_Witness ==
    /\ pc = "failed"
    /\ geojson.isObject
    /\ geojson.type = TypeFeature
    /\ geojson.features.isArray
    /\ Len(geojson.features.items) = 1
    /\ Survives(geojson.features.items[1])
    /\ statusEl = StatusError

\* C10: after a response with a non-success HTTP status the status line shows
\* the error message, nothing is registered, attached or built, and the
\* visible count (the sum updateVisibleCount computes) is 0.
C10_HttpFailureBuildsNothing ==
    res = "http-error" =>
        /\ pc = "failed"
        /\ statusEl = StatusError
        /\ allMarkers = <<>>
        /\ categoryLayers = <<>>
        /\ categoryCounts = <<>>
        /\ mapLayers = {}
        /\ filtersEl = <<>>
        /\ SumVisible(categoryLayers, mapLayers, categoryCounts, 1) = 0

\* the response came with a failure status and init() has ended in its catch
C10_Witness ==
    /\ res = "http-error"
    /\ statusEl = StatusError
    /\ pc = "failed"

(***************************************************************************)
(* C11..C20                                                                *)
(***************************************************************************)
UserEvents == {"change", "selectAll", "selectNone", "zoomVisible"}

CheckboxEvents == {"change", "selectAll", "selectNone"}

Pending == pc \in {"fetching", "parsing"}

\* the categories whose row is checked
CheckedCats == {filtersEl[i].cat : i \in {j \in DOMAIN filtersEl : filtersEl[j].checked}}

\* the markers held by the layers that are on the map
MarkersOnMap ==
    UNION {{categoryLayers[i].val[m] : m \in DOMAIN categoryLayers[i].val} :
              i \in {j \in DOMAIN categoryLayers : categoryLayers[j].key \in mapLayers}}

RECURSIVE SumOfCounts(_)
SumOfCounts(keys) ==
    IF keys = {} THEN 0
    ELSE LET k == CHOOSE x \in keys : TRUE
         IN CountOf(categoryCounts, k) + SumOfCounts(keys \ {k})

\* what a row shows, its checkbox apart
RowFace(i) == [cat |-> filtersEl[i].cat, id |-> filtersEl[i].id,
               label |-> filtersEl[i].label, count |-> filtersEl[i].count]

\* C11: right after a successful load every registered category has its layer
\* on the map and its checkbox checked; in every later state each row is
\* either checked with its layer on the map or unchecked with it off; and only
\* a checkbox change, select-all or select-none changes which layers are on
\* the map or which rows are checked.
C11_VisibleAfterLoadThenTwoStates ==
    /\ []((pc = "loaded" /\ lastEvent = "json") =>
             /\ mapLayers = KeySet(categoryLayers)
             /\ CheckedCats = KeySet(categoryLayers))
    /\ [](pc = "loaded" =>
             \A i \in DOMAIN filtersEl :
                 filtersEl[i].checked <=> filtersEl[i].cat \in mapLayers)
    /\ [][(pc = "loaded" /\ (mapLayers' # mapLayers \/ CheckedCats' # CheckedCats))
             => lastEvent' \in CheckboxEvents]_vars

\* the load has just ended well with two categories
C11_Witness ==
    /\ pc = "loaded"
    /\ lastEvent = "json"
    /\ Len(categoryLayers) = 2
    /\ Cardinality(mapLayers) = 2

\* C12: rows exist only once the load has run its loop over all the features
\* and the registry holds their categories; and a click on select-all,
\* select-none or zoom-to-visible while the load is pending changes no layer,
\* no count, no row and no map view.
C12_NoEffectBeforePanel ==
    /\ [](filtersEl # <<>> =>
             /\ ~Pending
             /\ IsFeatureCollection(geojson)
             /\ Len(allMarkers) = Cardinality(SurvivorIndices)
             /\ \A i \in DOMAIN filtersEl : MapHas(categoryLayers, filtersEl[i].cat))
    /\ [][(Pending /\ lastEvent' \in UserEvents) =>
             UNCHANGED <<filtersEl, mapLayers, visibleCountEl, mapView, categoryLayers,
                         categoryCounts, allMarkers, statusEl>>]_vars

\* zoom-to-visible was clicked between the response and its body
C12_Witness ==
    /\ pc = "parsing"
    /\ lastEvent = "zoomVisible"
    /\ mapView = InitialView

\* C13: when setAllCheckboxes(checked) has run, every checkbox equals checked
\* and every category layer is on the map if and only if checked.
C13_SetAllReachesEveryCategory ==
    lastEvent \in {"selectAll", "selectNone"} =>
        /\ \A i \in DOMAIN filtersEl : filtersEl[i].checked = (lastEvent = "selectAll")
        /\ \A k \in KeySet(categoryLayers) : k \in mapLayers <=> lastEvent = "selectAll"

\* C14: every marker lies at a latitude in [-90, 90] and a longitude in
\* [-180, 180].
C14_PositionsInRange ==
    \A i \in DOMAIN allMarkers :
        /\ allMarkers[i].lat \in -90..90
        /\ allMarkers[i].lng \in -180..180

\* C15: a click on zoom-to-visible fits the view to the bounds of the markers
\* of the layers on the map, and leaves the view as it is when there is no
\* such marker.
C15_ZoomFitsVisibleOnly ==
    [][lastEvent' = "zoomVisible" =>
          IF MarkersOnMap = {} THEN mapView' = mapView
          ELSE /\ mapView'.kind = "fitBounds"
               /\ \A m \in MarkersOnMap :
                     /\ mapView'.south <= m.lat /\ m.lat <= mapView'.north
                     /\ mapView'.west <= m.lng /\ m.lng <= mapView'.east
               /\ \E m \in MarkersOnMap : m.lat = mapView'.south
               /\ \E m \in MarkersOnMap : m.lat = mapView'.north
               /\ \E m \in MarkersOnMap : m.lng = mapView'.west
               /\ \E m \in MarkersOnMap : m.lng = mapView'.east]_vars

\* zoom-to-visible was clicked with every category hidden: the view is still
\* the one the load fitted to all the markers
C15_Witness ==
    /\ pc = "loaded"
    /\ lastEvent = "zoomVisible"
    /\ Len(allMarkers) = 2
    /\ mapLayers = {}
    /\ mapView = FitIfValid(InitialView, BoundsOf(allMarkers))

\* C16: a feature collection with an empty features sequence loads: no
\* category, no row, a visible count of 0 and the status "Loaded 0 events".
C16_EmptyFeedLoads ==
    (~Pending /\ IsFeatureCollection(geojson) /\ geojson.features.items = <<>>) =>
        /\ pc = "loaded"
        /\ statusEl = <<"Loaded ", "0", " events">>
        /\ categoryLayers = <<>>
        /\ categoryCounts = <<>>
        /\ filtersEl = <<>>
        /\ mapLayers = {}
        /\ visibleCountEl = <<"0">>

\* the empty feed has been loaded
C16_Witness ==
    /\ pc = "loaded"
    /\ geojson.features.items = <<>>
    /\ statusEl = StatusLoaded(0)
    /\ allMarkers = <<>>

\* C17: after a successful load a row is checked exactly when the layer of its
\* category is on the map, every category on the map is a registered one with
\* a count, and the count shown is the sum of the counts of the categories on
\* the map.
C17_ViewsOfVisibilityAgree ==
    pc = "loaded" =>
        /\ CheckedCats = mapLayers
        /\ mapLayers \subseteq KeySet(categoryLayers)
        /\ mapLayers \subseteq KeySet(categoryCounts)
        /\ visibleCountEl = NatToString(SumOfCounts(mapLayers))

\* C18: a checkbox change, select-all, select-none or zoom-to-visible leaves
\* the keys, the counts, the markers of every layer, the rows (their checkbox
\* apart) and the status line as they were.
C18_VisibilityLeavesRegistry ==
    [][lastEvent' \in UserEvents =>
          /\ UNCHANGED <<categoryLayers, categoryCounts, allMarkers, statusEl>>
          /\ Len(filtersEl') = Len(filtersEl)
          /\ \A i \in DOMAIN filtersEl : RowFace(i)' = RowFace(i)]_vars

\* select-none has run on a panel of two categories
C18_Witness ==
    /\ pc = "loaded"
    /\ lastEvent = "selectNone"
    /\ Cardinality(KeySet(categoryCounts)) = 2
    /\ \A i \in DOMAIN categoryLayers : Len(categoryLayers[i].val) = 1
    /\ Len(filtersEl) = 2
    /\ statusEl = StatusLoaded(2)

\* C19: the status line is "Loading events..." until it becomes "Loaded N
\* events" or the error message, once; after the fetch has responded it does
\* become one of the two; and once init() has ended no continuation of it runs
\* again.
C19_StatusSequence ==
    /\ [](\/ statusEl = StatusLoading
          \/ statusEl = StatusError
          \/ statusEl = StatusLoaded(Len(allMarkers)))
    /\ [](statusEl = StatusLoading <=> Pending)
    /\ [][statusEl # StatusLoading => statusEl' = statusEl]_vars
    /\ [][~Pending => (pc' = pc /\ lastEvent' \notin {"script", "fetch", "json"}
                       /\ UNCHANGED <<res, geojson, categoryLayers, categoryCounts,
                                      allMarkers>>)]_vars
    /\ (res # "pending") ~> (statusEl # StatusLoading)

\* the load ended in its catch after a good response, and the user went on
\* clicking
C19_Witness ==
    /\ res = "ok"
    /\ pc = "failed"
    /\ statusEl = StatusError
    /\ lastEvent = "selectAll"

\* C20: the marker of a feature with coordinates [c0, c1] is at latitude c1
\* and longitude c0.
C20_LonLatSwapped ==
    IsFeatureCollection(geojson) =>
        \A i \in DOMAIN allMarkers :
            LET c == geojson.features.items[allMarkers[i].stamp].geometry.coordinates.items
            IN allMarkers[i].lat = c[2].n /\ allMarkers[i].lng = c[1].n

\* a feature at [10, 20] has its marker at latitude 20, longitude 10
C20_Witness ==
    /\ pc = "loaded"
    /\ Len(allMarkers) = 1
    /\ geojson.features.items[allMarkers[1].stamp].geometry.coordinates.items
           = <<Num(10), Num(20)>>
    /\ allMarkers[1].lat = 20
    /\ allMarkers[1].lng = 10

(***************************************************************************)
(* C21..C22                                                                *)
(***************************************************************************)
\* C21: whenever the status line shows the error message, no category is
\* registered, no category layer is on the map and the panel has no rows.
C21_ErrorLeavesNoPartialUI ==
    statusEl = StatusError =>
        /\ categoryLayers = <<>>
        /\ categoryCounts = <<>>
        /\ mapLayers = {}
        /\ filtersEl = <<>>

\* the feature has no category: every candidate key is absent or blank
NoCategoryGiven ==
    \A k \in PropKeys : ~NonBlankUnder(icons.props, k)

\* C22: in the icon-enabled copy the icon of a marker is the file the table
\* has for the trimmed category, and the file of "Other" when the table has
\* none; a feature without a category is of category "Uncategorised" and gets
\* the file of the fallback; and the icon of the row of a category is the file
\* of its marker.
C22_IconOfCategory ==
    icons.phase \in {"ingested", "built", "threw"} =>
        LET c == Trim(StringOf(icons.category))
        IN /\ icons.markerIcon = <<"assets/icons/">> \o
                  (IF c \in DOMAIN CATEGORY_ICON_FILE THEN CATEGORY_ICON_FILE[c]
                   ELSE CATEGORY_ICON_FILE[Other])
           /\ NoCategoryGiven =>
                  /\ icons.category = Str(Uncategorised)
                  /\ icons.markerIcon = <<"assets/icons/">> \o CATEGORY_ICON_FILE[Other]
           /\ icons.phase = "built" => icons.rowIcon = icons.markerIcon

=============================================================================
